---- MODULE Spec2Model ----
(***************************************************************************)
(* SRTCPeerConnection (secure-webrtc 0.0.1): the identity layer around a   *)
(* WebRTC transport.  A session description text is a sequence of atoms:   *)
(* the attribute keywords, the separators and the single characters of a   *)
(* hex string are atoms, "CRLF" is the line break.                         *)
(***************************************************************************)
EXTENDS Integers, Sequences, FiniteSets, TLC

(***************************************************************************)
(* Bounds of the model.                                                    *)
(***************************************************************************)
\* pushes after which the fingerprint array of a non-terminating scan is no
\* longer grown (the heap is finite)
MaxPush == 3
\* fingerprint/assertion pairs of a received description
MaxPairs == 3
\* fingerprint lines of a description the transport generates
MaxLocalLines == 1
\* calls of gatherIceCandidates the application has pending at once
MaxGatherCalls == 2

\* octets of an argument of uint8ToBase64Url, groups of one of hexToUint8
MaxBytes == 3

MaxGroups == 3

(***************************************************************************)
(* Text.                                                                   *)
(***************************************************************************)
CRLF == "CRLF"

HexDigits == <<"0", "1", "2", "3", "4", "5", "6", "7",
               "8", "9", "a", "b", "c", "d", "e", "f">>

UpperHexDigits == <<"0", "1", "2", "3", "4", "5", "6", "7",
                    "8", "9", "A", "B", "C", "D", "E", "F">>

\* the character class [a-fA-F0-9\:] of the fingerprint pattern
HexClass == {HexDigits[i] : i \in 1..16} \cup {UpperHexDigits[i] : i \in 1..16} \cup {":"}

\* String.prototype.toLowerCase on one atom
toLowerCase(c) ==
    IF \E i \in 11..16 : UpperHexDigits[i] = c
    THEN HexDigits[CHOOSE i \in 11..16 : UpperHexDigits[i] = c]
    ELSE c

\* String.prototype.toUpperCase on an algorithm token
toUpperCase(a) ==
    CASE a = "sha-ddd" -> "SHA-DDD"
      [] a = "sha-256" -> "SHA-256"
      [] a = "sha-384" -> "SHA-384"
      [] OTHER -> a

Min(S) == CHOOSE x \in S : \A y \in S : x <= y

Max(S) == CHOOSE x \in S : \A y \in S : y <= x

\* String.prototype.split(sep)
RECURSIVE Split(_, _)
Split(s, sep) ==
    IF \E i \in 1..Len(s) : s[i] = sep
    THEN LET i == Min({k \in 1..Len(s) : s[k] = sep})
         IN  <<SubSeq(s, 1, i - 1)>> \o Split(SubSeq(s, i + 1, Len(s)), sep)
    ELSE <<s>>

\* Array.prototype.join() of strings: the default separator is ","
RECURSIVE Join(_)
Join(parts) ==
    IF Len(parts) = 0 THEN <<>>
    ELSE IF Len(parts) = 1 THEN parts[1]
    ELSE parts[1] \o <<",">> \o Join(Tail(parts))

(***************************************************************************)
(* hexToUint8.                                                             *)
(***************************************************************************)
DigitValue(c) == (CHOOSE i \in 1..16 : HexDigits[i] = c \/ UpperHexDigits[i] = c) - 1

IsHexDigit(c) == \E i \in 1..16 : HexDigits[i] = c \/ UpperHexDigits[i] = c

\* parseInt(b, 16): the value of the longest prefix of hex digits, NaN if
\* that prefix is empty
RECURSIVE DigitsValue(_, _)
DigitsValue(b, acc) ==
    IF Len(b) = 0 \/ ~IsHexDigit(b[1]) THEN acc
    ELSE DigitsValue(Tail(b), acc * 16 + DigitValue(b[1]))

parseInt(b) ==
    IF Len(b) = 0 \/ ~IsHexDigit(b[1])
    THEN [nan |-> TRUE, value |-> 0]
    ELSE [nan |-> FALSE, value |-> DigitsValue(b, 0)]

\* the conversion of a number to an element of a Uint8Array
ToUint8(n) == IF n.nan THEN 0 ELSE n.value % 256

hexToUint8(hex) ==
    LET bytes == Split(hex, ":")
    IN  [i \in 1..Len(bytes) |-> ToUint8(parseInt(bytes[i]))]

(***************************************************************************)
(* uint8ToBase64Url.                                                       *)
(***************************************************************************)
\* the array base64url of the function
base64url ==
    <<"A", "B", "C", "D", "E", "F", "G", "H", "I", "J", "K", "L", "M",
      "N", "O", "P", "Q", "R", "S", "T", "U", "V", "W", "X", "Y", "Z",
      "a", "b", "c", "d", "e", "f", "g", "h", "i", "j", "k", "l", "m",
      "n", "o", "p", "q", "r", "s", "t", "u", "v", "w", "x", "y", "z",
      "0", "1", "2", "3", "4", "5", "6", "7", "8", "9", "_", "\\">>

\* base64url[v] and bytes[k], both indexed from 0
CharAt(v) == base64url[v + 1]

ByteAt(bytes, k) == bytes[k + 1]

\* the for loop: four characters for each three octets; the value is i after
\* the loop and the text so far.  x >> n is x \div 2^n, x & (2^n - 1) is
\* x % 2^n, and the | of the function joins disjoint bits, which is +.
RECURSIVE EncodeTriples(_, _, _)
EncodeTriples(bytes, i, result) ==
    IF i < Len(bytes)
    THEN EncodeTriples(bytes, i + 3,
            result \o <<CharAt(ByteAt(bytes, i - 2) \div 4),
                        CharAt((ByteAt(bytes, i - 2) % 4) * 16 + ByteAt(bytes, i - 1) \div 16),
                        CharAt((ByteAt(bytes, i - 1) % 16) * 4 + ByteAt(bytes, i) \div 64),
                        CharAt(ByteAt(bytes, i) % 64)>>)
    ELSE [i |-> i, result |-> result]

uint8ToBase64Url(bytes) ==
    LET l == Len(bytes)
        loop == EncodeTriples(bytes, 2, <<>>)
        i == loop.i
        oneOctet == IF i = l + 1
                    THEN <<CharAt(ByteAt(bytes, i - 2) \div 4),
                           CharAt((ByteAt(bytes, i - 2) % 4) * 16),
                           "=", "=">>
                    ELSE <<>>
        twoOctets == IF i = l
                     THEN <<CharAt(ByteAt(bytes, i - 2) \div 4),
                            CharAt((ByteAt(bytes, i - 2) % 4) * 16 + ByteAt(bytes, i - 1) \div 16),
                            CharAt((ByteAt(bytes, i - 1) % 16) * 4),
                            "=">>
                     ELSE <<>>
    IN  loop.result \o oneOctet \o twoOctets

(***************************************************************************)
(* The pattern /a\=fingerprint\:?(sha\-d{3}) ([a-fA-F0-9\:]+)/ and         *)
(* String.prototype.match.                                                 *)
(***************************************************************************)
\* where the algorithm group starts when the pattern is tried at i
AlgorithmAt(s, i) == IF i + 1 <= Len(s) /\ s[i + 1] = ":" THEN i + 2 ELSE i + 1

MatchesAt(s, i) ==
    LET a == AlgorithmAt(s, i)
    IN  /\ s[i] = "a=fingerprint"
        /\ a + 2 <= Len(s)
        /\ s[a] = "sha-ddd"
        /\ s[a + 1] = " "
        /\ s[a + 2] \in HexClass

\* last atom of the greedy run of the class that starts at j
RunEnd(s, j) == Max({k \in j..Len(s) : \A m \in j..k : s[m] \in HexClass})

NoMatch == [found |-> FALSE, index |-> 0, length |-> 0, algorithm |-> "", hex |-> <<>>]

match(s) ==
    IF \E i \in 1..Len(s) : MatchesAt(s, i)
    THEN LET i == Min({k \in 1..Len(s) : MatchesAt(s, k)})
             a == AlgorithmAt(s, i)
             e == RunEnd(s, a + 2)
         IN  [found |-> TRUE, index |-> i, length |-> e - i + 1,
              algorithm |-> s[a], hex |-> SubSeq(s, a + 2, e)]
    ELSE NoMatch

\* sessionDescription.substring(match.index ?? 0 + match[0].length): the
\* index is defined, so the text from the start of the match
substring(s, m) == SubSeq(s, m.index, Len(s))

\* the SRTCFingerprint pushed for a match
PushedFingerprint(m) ==
    [algorithm |-> toUpperCase(m.algorithm),
     fingerprint |-> hexToUint8([i \in 1..Len(m.hex) |-> toLowerCase(m.hex[i])])]

(***************************************************************************)
(* Descriptions.                                                           *)
(***************************************************************************)
NoDescription == [type |-> "none", sdp |-> <<>>]

Description(t, text) == [type |-> t, sdp |-> text]

\* colon-separated two-digit groups of a byte sequence
RECURSIVE HexOf(_, _)
HexOf(bytes, digits) ==
    IF Len(bytes) = 0 THEN <<>>
    ELSE <<digits[(bytes[1] \div 16) + 1], digits[(bytes[1] % 16) + 1]>>
         \o (IF Len(bytes) > 1 THEN <<":">> \o HexOf(Tail(bytes), digits) ELSE <<>>)

FingerprintLine(alg, hex) == <<"a=fingerprint", ":", alg, " ">> \o hex

IdentityLine(idToken) == <<"a=identity:oidc", " ", idToken>>

\* a session description text with the given attribute lines
RECURSIVE SdpOf(_)
SdpOf(lines) ==
    IF Len(lines) = 0 THEN <<"v=0">>
    ELSE SdpOf(SubSeq(lines, 1, Len(lines) - 1)) \o <<CRLF>> \o lines[Len(lines)]

\* the certificate of the local transport and the fingerprint lines a
\* transport implementation supplied by configuration.rtcPeerConnection may
\* emit
LocalCertificate == <<1, 255>>

\* a hex part with an empty group and a group of one digit
MalformedHex == <<"0", "1", ":", ":", "F">>

LocalLines ==
    {FingerprintLine("sha-256", HexOf(LocalCertificate, UpperHexDigits)),
     FingerprintLine("sha-ddd", HexOf(LocalCertificate, UpperHexDigits)),
     FingerprintLine("sha-ddd", MalformedHex)}

SeqsUpTo(S, n) == UNION {[1..k -> S] : k \in 0..n}

\* an answer with a session-level and a media-level fingerprint line
TwoFingerprintLines ==
    <<FingerprintLine("sha-256", HexOf(LocalCertificate, UpperHexDigits)),
      FingerprintLine("sha-256", HexOf(LocalCertificate, UpperHexDigits))>>

LocalSdps ==
    {SdpOf(ls) : ls \in SeqsUpTo(LocalLines, MaxLocalLines)} \cup {SdpOf(TwoFingerprintLines)}

(***************************************************************************)
(* The token-request capability.                                           *)
(***************************************************************************)
DefaultCallback == "default"

CustomCallbacks == {"issuing", "failing"}

\* what the capability answers for a fingerprint
TokenRequestResult(callback, f) ==
    CASE callback = DefaultCallback ->
           [ok |-> TRUE, accessToken |-> "", idToken |-> "", error |-> ""]
      [] callback = "issuing" ->
           [ok |-> TRUE, accessToken |-> "accessToken",
            idToken |-> IF f.fingerprint = LocalCertificate THEN "idTokenLocal" ELSE "idTokenOther",
            error |-> ""]
      [] OTHER ->
           [ok |-> FALSE, accessToken |-> "", idToken |-> "", error |-> "NetworkError"]

\* the text appended for one token pair
TokenSdpParameter(t) ==
    (IF t.idToken # "" THEN <<CRLF, "a=identity:oidc", " ", t.idToken>> ELSE <<>>)
    \o (IF t.accessToken # "" THEN <<CRLF, "a=authorization:oauth2", " ", t.accessToken>> ELSE <<>>)

\* the composition with one group for every a=fingerprint line of the
\* original, a group without tokens being empty
ComposedPerFingerprintLine(original, tokens) ==
    original \o Join([i \in 1..Len(SelectSeq(original, LAMBDA atom : atom = "a=fingerprint")) |->
                         IF i <= Len(tokens) THEN TokenSdpParameter(tokens[i]) ELSE <<>>])

\* the sdp createAnswer composes from the original sdp and the tokens
ComposedSdp(original, tokens) ==
    original \o Join([i \in 1..Len(tokens) |-> TokenSdpParameter(tokens[i])])

(***************************************************************************)
(* Descriptions received from the remote peer.                             *)
(***************************************************************************)
RemoteCertificate == <<170>>

Pow2(k) == IF k = 0 THEN 1 ELSE IF k = 1 THEN 2 ELSE IF k = 2 THEN 4
           ELSE IF k = 3 THEN 8 ELSE IF k = 4 THEN 16 ELSE IF k = 5 THEN 32
           ELSE IF k = 6 THEN 64 ELSE 128

\* bytes with bit k of byte i inverted
FlipBit(bytes, i, k) ==
    [bytes EXCEPT ![i] = IF (@ \div Pow2(k)) % 2 = 1 THEN @ - Pow2(k) ELSE @ + Pow2(k)]

SingleBitMutations(bytes) == {FlipBit(bytes, i, k) : i \in 1..Len(bytes), k \in 0..7}

RemotePair(bytes, idToken) == [bytes |-> bytes, idToken |-> idToken]

\* the pairs descriptions with several fingerprints are built from
RemotePairs ==
    {RemotePair(RemoteCertificate, "idTokenAlice"),
     RemotePair(RemoteCertificate, "idTokenMallory")}

\* further pairs, each the only pair of its description: the certificate with
\* its lowest or its highest bit changed, no assertion, a forged assertion
SinglePairs ==
    {RemotePair(FlipBit(RemoteCertificate, 1, k), "idTokenAlice") : k \in {0, 7}}
    \cup {RemotePair(RemoteCertificate, ""), RemotePair(RemoteCertificate, "idTokenForged")}

RECURSIVE PairLines(_)
PairLines(pairs) ==
    IF Len(pairs) = 0 THEN <<>>
    ELSE <<FingerprintLine("sha-256", HexOf(pairs[1].bytes, UpperHexDigits))>>
         \o (IF pairs[1].idToken # "" THEN <<IdentityLine(pairs[1].idToken)>> ELSE <<>>)
         \o PairLines(Tail(pairs))

RemoteSdp(pairs) == SdpOf(PairLines(pairs))

\* descriptions of MaxPairs pairs, at most one of them with an unknown issuer
PairSequences ==
    {ps \in [1..MaxPairs -> RemotePairs] :
        Cardinality({i \in 1..MaxPairs : ps[i].idToken = "idTokenMallory"}) <= 1}

RemoteDescriptions ==
    {Description("offer", RemoteSdp(ps)) : ps \in PairSequences}
    \cup {Description("offer", RemoteSdp(<<p>>)) : p \in RemotePairs \cup SinglePairs}
    \cup {Description("answer", RemoteSdp(<<p>>)) : p \in RemotePairs}

IdentityProviders == {"idp.example.org"}

(***************************************************************************)
(* State.                                                                  *)
(***************************************************************************)
VARIABLES
    RTCPeerConnection,         \* SRTCPeerConnection.RTCPeerConnection
    configuration,             \* the SRTCConfiguration given to the constructor
    peer,                      \* the class this.peer is an instance of
    requestToken,              \* this.requestToken
    trustedIdentityProviders,  \* SRTCPeerConnection.trustedIdentityProviders
    peerSignaling,             \* this.peer.signalingState
    peerLocal,                 \* this.peer.localDescription
    peerRemote,                \* this.peer.remoteDescription
    peerCurrentLocal,          \* this.peer.currentLocalDescription
    peerCurrentRemote,         \* this.peer.currentRemoteDescription
    co,                        \* the createOffer call
    ca,                        \* the createAnswer call
    srd,                       \* the setRemoteDescription call
    sld,                       \* the setLocalDescription call
    invocations,               \* fingerprints the token capability was invoked with
    peerIceGatheringState,     \* this.peer.iceGatheringState
    listeners,                 \* the icegatheringstatechange listeners of this.peer
    dispatching,               \* listeners the event being dispatched has yet to call
    gic,                       \* the gatherIceCandidates calls
    conversion                 \* the call of hexToUint8 or uint8ToBase64Url

vars == <<RTCPeerConnection, peer, configuration, requestToken, trustedIdentityProviders, peerSignaling,
          peerLocal, peerRemote, peerCurrentLocal, peerCurrentRemote,
          co, ca, srd, sld, invocations,
          peerIceGatheringState, listeners, dispatching, gic, conversion>>

iceVars == <<peerIceGatheringState, listeners, dispatching, gic>>

sessionVars == <<conversion, RTCPeerConnection, peer, configuration, requestToken, trustedIdentityProviders, peerSignaling,
                 peerLocal, peerRemote, peerCurrentLocal, peerCurrentRemote,
                 co, ca, srd, sld, invocations>>

\* each call of gatherIceCandidates has its own onIceGatheringStateChange
GatherCalls == 1..MaxGatherCalls

\* a call of one of the four session description methods.  fingerprints and
\* remaining are the locals of extractFingerprints (an undefined or null
\* remaining is the empty text: all three end the loop); error is what the
\* method's promise is rejected with.  Three fields record the call's history:
\* raised is the error the awaited operation threw, store the trust store in
\* effect when the call was made, remote the remote description the
\* transport held when it created the call's description.
Idle == [pc |-> "idle", caller |-> "application", description |-> NoDescription,
         fingerprints |-> <<>>, tokenRequests |-> <<>>, result |-> NoDescription,
         remaining |-> <<>>, error |-> "", raised |-> "", store |-> {},
         remote |-> NoDescription]

\* a method that catches what the awaited promise threw and returns normally
Swallowed(call, error) == [call EXCEPT !.pc = "resolved", !.raised = error]

\* an awaited promise rejects: the async method rethrows what it threw
Rejected(call, error) ==
    [call EXCEPT !.pc = "rejected", !.error = error, !.raised = error]

Settled == {"idle", "resolved", "rejected"}

\* calls that were made and have not settled
InFlight == {call \in {co, ca, srd, sld} : call.pc \notin Settled}

\* the thread is inside the do-while loop of extractFingerprints
Scanning == ca.pc = "scan"

\* the application awaits each call before it makes the next one
CanCall == ~Scanning /\ InFlight = {}

\* a remote description arrives while setLocalDescription() awaits the
\* description it creates, and the application applies it
CanSupersede == ~Scanning /\ sld.pc = "create"

\* the application has taken the outcome of a settled call when it makes its
\* next call
Consumed(call) == IF call.pc \in Settled THEN Idle ELSE call

Configuration(callback, override, providers, peerIdentity) ==
    [customTokenRequestCallback |-> callback,
     peerIdentity |-> peerIdentity,
     trustedIdentityProviders |-> [set |-> override, providers |-> providers],
     rtcPeerConnection |-> ""]

\* "" is an option the application left out
Configurations ==
    {Configuration("", FALSE, {}, ""),
     Configuration("issuing", FALSE, {}, ""),
     Configuration("issuing", TRUE, IdentityProviders, ""),
     Configuration("failing", FALSE, {}, ""),
     Configuration("", TRUE, {}, ""),
     Configuration("", TRUE, IdentityProviders, "bob")}

\* the connection-scoped override when configured, else the static default
EffectiveTrustStore ==
    IF configuration.trustedIdentityProviders.set
    THEN configuration.trustedIdentityProviders.providers
    ELSE trustedIdentityProviders

\* the classes a transport can be created from: the browser's, the one of
\* the wrtc package, and one an application passes as rtcPeerConnection
BrowserClass == "RTCPeerConnection"
Implementations == {BrowserClass, "wrtc.RTCPeerConnection"}
SuppliedClass == "MockPeerConnection"

\* the configurations above, and each of them with rtcPeerConnection
ConstructConfigurations ==
    Configurations \cup {[c EXCEPT !.rtcPeerConnection = SuppliedClass] : c \in Configurations}

\* the class that is always the static one
StaticClass(c, static) == static

\* the class the constructor creates this.peer from
TransportClass(c, static) ==
    IF c.rtcPeerConnection # "" THEN c.rtcPeerConnection ELSE static

\* the value of this.requestToken after the constructor
TokenCapability(c) ==
    IF c.customTokenRequestCallback # "" THEN c.customTokenRequestCallback ELSE DefaultCallback

\* new SRTCPeerConnection(configuration), for a static class and a
\* configuration out of the given sets
Constructed(statics, configurations) ==
    /\ RTCPeerConnection \in statics
    /\ configuration \in configurations
    /\ peer = TransportClass(configuration, RTCPeerConnection)
    /\ requestToken = TokenCapability(configuration)
    /\ trustedIdentityProviders = {}
    /\ peerSignaling = "stable"
    /\ peerLocal = NoDescription
    /\ peerRemote = NoDescription
    /\ peerCurrentLocal = NoDescription
    /\ peerCurrentRemote = NoDescription
    /\ co = Idle
    /\ ca = Idle
    /\ srd = Idle
    /\ sld = Idle
    /\ invocations = <<>>
    /\ peerIceGatheringState = "new"
    /\ listeners = <<>>
    /\ dispatching = <<>>
    /\ gic = [i \in GatherCalls |-> "idle"]

\* a call of one of the two conversions: the function, its argument and what
\* it returned
NoConversion == [function |-> "none", argument |-> <<>>, returned |-> FALSE, result |-> <<>>]

\* a connection constructed in a browser
Init == Constructed({BrowserClass}, Configurations) /\ conversion = NoConversion

\* a connection constructed in a browser or under Node.js, with or without a
\* transport class of its own
ConstructInit ==
    Constructed(Implementations, ConstructConfigurations) /\ conversion = NoConversion

(***************************************************************************)
(* The transport (this.peer).                                              *)
(***************************************************************************)
PeerAcceptsRemote(type) ==
    \/ type = "offer" /\ peerSignaling \in {"stable", "have-remote-offer"}
    \/ type = "answer" /\ peerSignaling = "have-local-offer"

PeerCanAnswer == peerSignaling = "have-remote-offer"

\* the transport runs its operations one at a time in the order of the
\* calls: a createOffer or createAnswer it has not finished is ahead of a
\* later setRemoteDescription
PeerCreating == co.pc = "peer" \/ ca.pc = "peer"

PeerAcceptsLocal(type) ==
    \/ type = "offer" /\ peerSignaling \in {"stable", "have-local-offer"}
    \/ type = "answer" /\ peerSignaling = "have-remote-offer"

\* the transport applies a remote description: an offer becomes the pending
\* remote description, an answer completes the negotiation
PeerAppliesRemote(d) ==
    /\ peerRemote' = d
    /\ peerSignaling' = IF d.type = "offer" THEN "have-remote-offer" ELSE "stable"
    /\ IF d.type = "answer"
       THEN peerCurrentLocal' = peerLocal /\ peerCurrentRemote' = d
       ELSE UNCHANGED <<peerCurrentLocal, peerCurrentRemote>>

\* the transport applies a local description
PeerAppliesLocal(d) ==
    /\ peerLocal' = d
    /\ peerSignaling' = IF d.type = "offer" THEN "have-local-offer" ELSE "stable"
    /\ IF d.type = "answer"
       THEN peerCurrentLocal' = d /\ peerCurrentRemote' = peerRemote
       ELSE UNCHANGED <<peerCurrentLocal, peerCurrentRemote>>

\* this.peer.pendingLocalDescription
PeerPendingLocal == IF peerSignaling = "have-local-offer" THEN peerLocal ELSE NoDescription

\* this.peer.pendingRemoteDescription
PeerPendingRemote == IF peerSignaling = "have-remote-offer" THEN peerRemote ELSE NoDescription

(***************************************************************************)
(* The description getters.                                                *)
(***************************************************************************)
currentLocalDescription == peerCurrentLocal

\* returns this.peer.currentLocalDescription
currentRemoteDescription == peerCurrentLocal

pendingLocalDescription == PeerPendingLocal

pendingRemoteDescription == PeerPendingRemote

\* get signalingState
signalingState == peerSignaling

localDescription == peerLocal

remoteDescription == peerRemote

(***************************************************************************)
(* createOffer.                                                            *)
(***************************************************************************)
CreateOffer ==
    /\ CanCall
    /\ co.pc \in Settled
    /\ co' = [Idle EXCEPT !.pc = "peer"]
    /\ ca' = Consumed(ca)
    /\ srd' = Consumed(srd)
    /\ sld' = Consumed(sld)
    /\ UNCHANGED <<iceVars, conversion, RTCPeerConnection, peer, peerCurrentLocal, peerCurrentRemote,
                   configuration, requestToken, trustedIdentityProviders, peerSignaling,
                   peerLocal, peerRemote, invocations>>

\* return await this.peer.createOffer(options)
CreateOfferSettles ==
    /\ ~Scanning
    /\ co.pc = "peer"
    /\ \E sdp \in LocalSdps, failed \in BOOLEAN :
          co' = IF failed
                THEN Rejected(co, "OperationError")
                ELSE [co EXCEPT !.pc = "resolved", !.result = Description("offer", sdp)]
    /\ UNCHANGED <<iceVars, conversion, RTCPeerConnection, peer, peerCurrentLocal, peerCurrentRemote,
                   configuration, requestToken, trustedIdentityProviders, peerSignaling,
                   peerLocal, peerRemote, ca, srd, sld, invocations>>

(***************************************************************************)
(* createAnswer.                                                           *)
(***************************************************************************)
CreateAnswer ==
    /\ CanCall
    /\ ca.pc \in Settled
    /\ ca' = [Idle EXCEPT !.pc = "peer"]
    /\ co' = Consumed(co)
    /\ srd' = Consumed(srd)
    /\ sld' = Consumed(sld)
    /\ UNCHANGED <<iceVars, conversion, RTCPeerConnection, peer, peerCurrentLocal, peerCurrentRemote,
                   configuration, requestToken, trustedIdentityProviders, peerSignaling,
                   peerLocal, peerRemote, invocations>>

\* await this.peer.createAnswer(options); the continuation enters
\* extractFingerprints
CreateAnswerPeerSettles ==
    /\ ~Scanning
    /\ ca.pc = "peer"
    /\ \E sdp \in LocalSdps :
          ca' = IF PeerCanAnswer
                THEN [ca EXCEPT !.pc = "scan", !.description = Description("answer", sdp),
                                !.remote = peerRemote]
                ELSE Rejected(ca, "InvalidStateError")
    /\ UNCHANGED <<iceVars, conversion, RTCPeerConnection, peer, peerCurrentLocal, peerCurrentRemote,
                   configuration, requestToken, trustedIdentityProviders, peerSignaling,
                   peerLocal, peerRemote, co, srd, sld, invocations>>

\* fingerprints.map(f => this.requestToken(f)), then await Promise.all
AwaitingTokens(call, fingerprints) ==
    [call EXCEPT !.pc = "tokens",
                 !.fingerprints = fingerprints,
                 !.remaining = <<>>,
                 !.tokenRequests = [i \in 1..Len(fingerprints) |->
                                       TokenRequestResult(requestToken, fingerprints[i])]]

\* extractFingerprints as a function of its argument; returns is FALSE when
\* the loop is still running after MaxPush pushes
RECURSIVE extractFingerprints(_, _)
extractFingerprints(sessionDescription, fingerprints) ==
    LET m == match(sessionDescription)
        pushed == IF m.found THEN Append(fingerprints, PushedFingerprint(m)) ELSE fingerprints
        remaining == IF m.found THEN substring(sessionDescription, m) ELSE <<>>
    IN  IF Len(remaining) = 0
        THEN [returns |-> TRUE, fingerprints |-> pushed]
        ELSE IF Len(pushed) >= MaxPush
             THEN [returns |-> FALSE, fingerprints |-> pushed]
             ELSE extractFingerprints(sessionDescription, pushed)

\* a loop that would cut each match off the text of the description
ExtractIterationConsuming ==
    /\ ca.pc = "scan"
    /\ \E m \in {match(ca.description.sdp)} :
       \E pushed \in {IF m.found THEN Append(ca.fingerprints, PushedFingerprint(m))
                      ELSE ca.fingerprints} :
       \E remaining \in {IF m.found THEN Tail(substring(ca.description.sdp, m)) ELSE <<>>} :
          /\ Len(pushed) <= MaxPush
          /\ IF Len(remaining) > 0
             THEN /\ ca' = [ca EXCEPT !.fingerprints = pushed, !.remaining = remaining,
                                      !.description = Description("answer", remaining)]
                  /\ UNCHANGED invocations
             ELSE /\ ca' = AwaitingTokens(ca, pushed)
                  /\ invocations' = invocations \o pushed
    /\ UNCHANGED <<iceVars, conversion, RTCPeerConnection, peer, peerCurrentLocal, peerCurrentRemote,
                   configuration, requestToken, trustedIdentityProviders, peerSignaling,
                   peerLocal, peerRemote, co, srd, sld>>

\* one iteration of the do-while loop of extractFingerprints; when the loop
\* ends, createAnswer issues the token requests
ExtractIteration ==
    /\ ca.pc = "scan"
    /\ \E m \in {match(ca.description.sdp)} :
       \E pushed \in {IF m.found THEN Append(ca.fingerprints, PushedFingerprint(m))
                      ELSE ca.fingerprints} :
       \E remaining \in {IF m.found THEN substring(ca.description.sdp, m) ELSE <<>>} :
          /\ Len(pushed) <= MaxPush
          /\ IF Len(remaining) > 0
             THEN /\ ca' = [ca EXCEPT !.fingerprints = pushed, !.remaining = remaining]
                  /\ UNCHANGED invocations
             ELSE /\ ca' = AwaitingTokens(ca, pushed)
                  /\ invocations' = invocations \o pushed
    /\ UNCHANGED <<iceVars, conversion, RTCPeerConnection, peer, peerCurrentLocal, peerCurrentRemote,
                   configuration, requestToken, trustedIdentityProviders, peerSignaling,
                   peerLocal, peerRemote, co, srd, sld>>

\* the continuation of await Promise.all(tokenRequests)
TokensSettle ==
    /\ ~Scanning
    /\ ca.pc = "tokens"
    /\ LET failed == {i \in 1..Len(ca.tokenRequests) : ~ca.tokenRequests[i].ok}
       IN  ca' = IF failed # {}
                 THEN Rejected(ca, ca.tokenRequests[Min(failed)].error)
                 ELSE [ca EXCEPT !.pc = "resolved",
                                 !.result = Description(ca.description.type,
                                               ComposedSdp(ca.description.sdp, ca.tokenRequests))]
    /\ UNCHANGED <<iceVars, conversion, RTCPeerConnection, peer, peerCurrentLocal, peerCurrentRemote,
                   configuration, requestToken, trustedIdentityProviders, peerSignaling,
                   peerLocal, peerRemote, co, srd, sld, invocations>>

(***************************************************************************)
(* setRemoteDescription.                                                   *)
(***************************************************************************)
\* the call hands the description to this.peer.setRemoteDescription
SetRemoteDescription ==
    /\ CanCall
    /\ srd.pc \in Settled
    /\ \E d \in RemoteDescriptions : srd' = [Idle EXCEPT !.pc = "peer", !.description = d,
                                                     !.store = EffectiveTrustStore]
    /\ co' = Consumed(co)
    /\ ca' = Consumed(ca)
    /\ sld' = Consumed(sld)
    /\ UNCHANGED <<iceVars, conversion, RTCPeerConnection, peer, peerCurrentLocal, peerCurrentRemote,
                   configuration, requestToken, trustedIdentityProviders, peerSignaling,
                   peerLocal, peerRemote, invocations>>

\* the offers that arrive while setLocalDescription() is creating a description
SupersedingOffers == {Description("offer", RemoteSdp(<<RemotePair(RemoteCertificate, "")>>))}

\* the call made for a new offer while setLocalDescription() has not settled
SetRemoteDescriptionSupersedes ==
    /\ CanSupersede
    /\ srd.pc \in Settled
    /\ \E d \in SupersedingOffers : srd' = [Idle EXCEPT !.pc = "peer", !.description = d,
                                                        !.store = EffectiveTrustStore]
    /\ UNCHANGED <<iceVars, conversion, RTCPeerConnection, peer, peerCurrentLocal, peerCurrentRemote,
                   configuration, requestToken, trustedIdentityProviders, peerSignaling,
                   peerLocal, peerRemote, co, ca, sld, invocations>>

\* a setRemoteDescription that takes identity assertions to be mandatory
SetRemoteDescriptionEnforced ==
    /\ ~Scanning
    /\ srd.pc = "peer"
    /\ ~PeerCreating
    /\ IF /\ PeerAcceptsRemote(srd.description.type)
          /\ \E i \in 1..Len(srd.description.sdp) : srd.description.sdp[i] = "a=identity:oidc"
       THEN /\ PeerAppliesRemote(srd.description)
            /\ srd' = [srd EXCEPT !.pc = "resolved"]
       ELSE /\ srd' = Rejected(srd, IF PeerAcceptsRemote(srd.description.type)
                                    THEN "IdentityValidationError" ELSE "InvalidStateError")
            /\ UNCHANGED <<peerRemote, peerSignaling, peerCurrentLocal, peerCurrentRemote>>
    /\ UNCHANGED <<iceVars, conversion, RTCPeerConnection, peer, configuration, requestToken, trustedIdentityProviders,
                   peerLocal, co, ca, sld, invocations>>

\* await this.peer.setRemoteDescription(description)
SetRemoteDescriptionSettles ==
    /\ ~Scanning
    /\ srd.pc = "peer"
    /\ ~PeerCreating
    /\ IF PeerAcceptsRemote(srd.description.type)
       THEN /\ PeerAppliesRemote(srd.description)
            /\ srd' = [srd EXCEPT !.pc = "resolved"]
       ELSE /\ srd' = Rejected(srd, "InvalidStateError")
            /\ UNCHANGED <<peerRemote, peerSignaling, peerCurrentLocal, peerCurrentRemote>>
    /\ UNCHANGED <<iceVars, conversion, RTCPeerConnection, peer, configuration, requestToken, trustedIdentityProviders,
                   peerLocal, co, ca, sld, invocations>>

(***************************************************************************)
(* setLocalDescription.                                                    *)
(***************************************************************************)
\* descriptions the application passes to setLocalDescription
LocalDescriptions ==
    {Description(t, SdpOf(<<l>>)) : t \in {"offer", "answer"}, l \in LocalLines}

\* the call that would request a token for the certificate of a description
\* the application supplied
SetLocalDescriptionBinds ==
    /\ CanCall
    /\ sld.pc \in Settled
    /\ co.pc \in Settled
    /\ ca.pc \in Settled
    /\ srd' = Consumed(srd)
    /\ Len(invocations) < MaxPush
    /\ \E d \in LocalDescriptions :
          /\ sld' = [Idle EXCEPT !.pc = "peer", !.description = d]
          /\ invocations' = Append(invocations,
                                   [algorithm |-> "SHA-256", fingerprint |-> LocalCertificate])
    /\ co' = Consumed(co)
    /\ ca' = Consumed(ca)
    /\ UNCHANGED <<iceVars, conversion, RTCPeerConnection, peer, peerCurrentLocal, peerCurrentRemote,
                   configuration, requestToken, trustedIdentityProviders, peerSignaling,
                   peerLocal, peerRemote>>

\* the call with a description hands it to this.peer.setLocalDescription; the
\* call without one starts createAnswer or createOffer
SetLocalDescription ==
    /\ CanCall
    /\ sld.pc \in Settled
    /\ co.pc \in Settled
    /\ ca.pc \in Settled
    /\ srd' = Consumed(srd)
    /\ \E d \in LocalDescriptions \cup {NoDescription} :
          IF d # NoDescription
          THEN /\ sld' = [Idle EXCEPT !.pc = "peer", !.description = d]
               /\ co' = Consumed(co)
               /\ ca' = Consumed(ca)
          ELSE /\ sld' = [Idle EXCEPT !.pc = "create"]
               /\ IF peerRemote.type = "offer"
                  THEN /\ ca' = [Idle EXCEPT !.pc = "peer", !.caller = "setLocalDescription"]
                       /\ co' = Consumed(co)
                  ELSE /\ co' = [Idle EXCEPT !.pc = "peer", !.caller = "setLocalDescription"]
                       /\ ca' = Consumed(ca)
    /\ UNCHANGED <<iceVars, conversion, RTCPeerConnection, peer, peerCurrentLocal, peerCurrentRemote,
                   configuration, requestToken, trustedIdentityProviders, peerSignaling,
                   peerLocal, peerRemote, invocations>>

\* the continuation that would hand a description to the transport although
\* the creation threw
SetLocalDescriptionAppliesAnyway ==
    /\ ~Scanning
    /\ sld.pc = "create"
    /\ \E created \in {co, ca} :
          /\ created.caller = "setLocalDescription"
          /\ created.pc \in {"resolved", "rejected"}
          /\ sld' = [sld EXCEPT !.pc = "peer", !.description = created.result,
                                !.remote = created.remote]
    /\ co' = IF co.caller = "setLocalDescription" THEN Idle ELSE co
    /\ ca' = IF ca.caller = "setLocalDescription" THEN Idle ELSE ca
    /\ UNCHANGED <<iceVars, conversion, RTCPeerConnection, peer, peerCurrentLocal, peerCurrentRemote,
                   configuration, requestToken, trustedIdentityProviders, peerSignaling,
                   peerLocal, peerRemote, srd, invocations>>

\* description = await this.createAnswer() or await this.createOffer(), then
\* this.peer.setLocalDescription(description)
SetLocalDescriptionCreated ==
    /\ ~Scanning
    /\ sld.pc = "create"
    /\ \E created \in {co, ca} :
          /\ created.caller = "setLocalDescription"
          /\ created.pc \in {"resolved", "rejected"}
          /\ sld' = IF created.pc = "resolved"
                    THEN [sld EXCEPT !.pc = "peer", !.description = created.result,
                                     !.remote = created.remote]
                    ELSE Rejected(sld, created.error)
    /\ co' = IF co.caller = "setLocalDescription" THEN Idle ELSE co
    /\ ca' = IF ca.caller = "setLocalDescription" THEN Idle ELSE ca
    /\ UNCHANGED <<iceVars, conversion, RTCPeerConnection, peer, peerCurrentLocal, peerCurrentRemote,
                   configuration, requestToken, trustedIdentityProviders, peerSignaling,
                   peerLocal, peerRemote, srd, invocations>>

\* await this.peer.setLocalDescription(description)
SetLocalDescriptionSettles ==
    /\ ~Scanning
    /\ sld.pc = "peer"
    /\ srd.pc # "peer"
    /\ IF PeerAcceptsLocal(sld.description.type)
       THEN /\ PeerAppliesLocal(sld.description)
            /\ sld' = [sld EXCEPT !.pc = "resolved"]
       ELSE /\ sld' = Rejected(sld, "InvalidStateError")
            /\ UNCHANGED <<peerLocal, peerSignaling, peerCurrentLocal, peerCurrentRemote>>
    /\ UNCHANGED <<iceVars, conversion, RTCPeerConnection, peer, configuration, requestToken, trustedIdentityProviders,
                   peerRemote, co, ca, srd, invocations>>

(***************************************************************************)
(* SRTCPeerConnection.trustedIdentityProviders = {...}                     *)
(***************************************************************************)
AssignTrustedIdentityProviders ==
    /\ ~Scanning
    /\ \E providers \in SUBSET IdentityProviders :
          /\ providers # trustedIdentityProviders
          /\ trustedIdentityProviders' = providers
    /\ UNCHANGED <<iceVars, conversion, RTCPeerConnection, peer, peerCurrentLocal, peerCurrentRemote,
                   configuration, requestToken, peerSignaling, peerLocal, peerRemote,
                   co, ca, srd, sld, invocations>>

(***************************************************************************)
(* The construction of a connection: the class of its transport and its    *)
(* token capability.                                                       *)
(***************************************************************************)
\* SRTCPeerConnection.RTCPeerConnection = wrtc.RTCPeerConnection
AssignRTCPeerConnection ==
    /\ ~Scanning
    /\ \E class \in Implementations :
          /\ class # RTCPeerConnection
          /\ RTCPeerConnection' = class
    /\ UNCHANGED <<iceVars, conversion, peer, configuration, requestToken, trustedIdentityProviders,
                   peerSignaling, peerLocal, peerRemote, peerCurrentLocal, peerCurrentRemote,
                   co, ca, srd, sld, invocations>>

\* the static class is assigned before or after a connection is constructed;
\* the connection answers offers
ConstructNext ==
    \/ AssignRTCPeerConnection
    \/ SetRemoteDescription
    \/ SetRemoteDescriptionSettles
    \/ CreateAnswer
    \/ CreateAnswerPeerSettles
    \/ ExtractIteration
    \/ TokensSettle

ConstructSpec == ConstructInit /\ [][ConstructNext]_vars

(***************************************************************************)
(* The two conversions as functions of their argument.                     *)
(***************************************************************************)
\* octets with the six-bit groups 0, 62 and 63 among others, and the
\* sequences of them the conversion is given
ByteSamples == {0, 1, 170, 251, 255}

ByteSequences == SeqsUpTo(ByteSamples, MaxBytes)

\* groups between the colons of a match of [a-fA-F0-9\:]+ in lower case: of
\* two digits, of one, of three and of none
HexGroups == {<<"0", "1">>, <<"f", "f">>, <<"a", "0">>, <<"f">>, <<"1", "2", "3">>, <<>>}

\* the groups of a sequence with a colon between each two
RECURSIVE Colons(_)
Colons(groups) ==
    IF Len(groups) = 0 THEN <<>>
    ELSE IF Len(groups) = 1 THEN groups[1]
    ELSE groups[1] \o <<":">> \o Colons(Tail(groups))

HexStrings ==
    {Colons(groups) : groups \in SeqsUpTo(HexGroups, MaxGroups)} \ {<<>>}

Conversion(function, argument) ==
    [function |-> function, argument |-> argument, returned |-> FALSE, result |-> <<>>]

\* the connection in a browser, and a call of one of the conversions
ConvertInit ==
    /\ Constructed({BrowserClass}, {Configuration("", FALSE, {}, "")})
    /\ conversion \in {Conversion("uint8ToBase64Url", bytes) : bytes \in ByteSequences}
                      \cup {Conversion("hexToUint8", hex) : hex \in HexStrings}

\* this.uint8ToBase64Url(bytes)
Uint8ToBase64Url ==
    /\ conversion.function = "uint8ToBase64Url"
    /\ ~conversion.returned
    /\ conversion' = [conversion EXCEPT !.returned = TRUE,
                                        !.result = uint8ToBase64Url(conversion.argument)]
    /\ UNCHANGED <<iceVars, RTCPeerConnection, peer, configuration, requestToken,
                   trustedIdentityProviders, peerSignaling, peerLocal, peerRemote,
                   peerCurrentLocal, peerCurrentRemote, co, ca, srd, sld, invocations>>

\* this.hexToUint8(hex)
HexToUint8 ==
    /\ conversion.function = "hexToUint8"
    /\ ~conversion.returned
    /\ conversion' = [conversion EXCEPT !.returned = TRUE,
                                        !.result = hexToUint8(conversion.argument)]
    /\ UNCHANGED <<iceVars, RTCPeerConnection, peer, configuration, requestToken,
                   trustedIdentityProviders, peerSignaling, peerLocal, peerRemote,
                   peerCurrentLocal, peerCurrentRemote, co, ca, srd, sld, invocations>>

ConvertNext ==
    \/ Uint8ToBase64Url
    \/ HexToUint8

ConvertSpec == ConvertInit /\ [][ConvertNext]_vars

Next ==
    \/ CreateOffer
    \/ CreateOfferSettles
    \/ CreateAnswer
    \/ CreateAnswerPeerSettles
    \/ ExtractIteration
    \/ TokensSettle
    \/ SetRemoteDescription
    \/ SetRemoteDescriptionSupersedes
    \/ SetRemoteDescriptionSettles
    \/ SetLocalDescription
    \/ SetLocalDescriptionCreated
    \/ SetLocalDescriptionSettles
    \/ AssignTrustedIdentityProviders

Spec == Init /\ [][Next]_vars

(***************************************************************************)
(* gatherIceCandidates.                                                    *)
(***************************************************************************)
\* get iceGatheringState
iceGatheringState == peerIceGatheringState

\* this.peer.addEventListener('icegatheringstatechange', listener)
addEventListener(ls, listener) ==
    IF \E k \in 1..Len(ls) : ls[k] = listener THEN ls ELSE Append(ls, listener)

\* a listener that stays registered when it resolves
keepEventListener(ls, listener) == ls

\* this.peer.removeEventListener('icegatheringstatechange', listener)
removeEventListener(ls, listener) == SelectSeq(ls, LAMBDA l : l # listener)

\* the call: it returns at once when gathering is complete, else it
\* registers its listener and awaits the promise the listener resolves
GatherIceCandidates ==
    /\ ~Scanning
    /\ dispatching = <<>>
    /\ \E i \in GatherCalls :
          /\ gic[i] = "idle"
          /\ IF iceGatheringState # "complete"
             THEN /\ gic' = [gic EXCEPT ![i] = "listening"]
                  /\ listeners' = addEventListener(listeners, i)
             ELSE /\ gic' = [gic EXCEPT ![i] = "resolved"]
                  /\ UNCHANGED listeners
    /\ UNCHANGED <<sessionVars, peerIceGatheringState, dispatching>>

\* the transport changes its gathering state and fires
\* icegatheringstatechange at the listeners registered at that moment
IceGatheringStateChange ==
    /\ ~Scanning
    /\ dispatching = <<>>
    /\ peerIceGatheringState' = CASE peerIceGatheringState = "new" -> "gathering"
                                  [] peerIceGatheringState = "gathering" -> "complete"
                                  [] OTHER -> "gathering"
    /\ dispatching' = listeners
    /\ UNCHANGED <<sessionVars, listeners, gic>>

\* onIceGatheringStateChange of the next listener of the event
OnIceGatheringStateChange ==
    /\ dispatching # <<>>
    /\ dispatching' = Tail(dispatching)
    /\ IF iceGatheringState = "complete"
       THEN /\ listeners' = removeEventListener(listeners, Head(dispatching))
            /\ gic' = [gic EXCEPT ![Head(dispatching)] = "resolved"]
       ELSE UNCHANGED <<listeners, gic>>
    /\ UNCHANGED <<sessionVars, peerIceGatheringState>>

\* the application's await of gatherIceCandidates() continues
GatherIceCandidatesReturns ==
    /\ ~Scanning
    /\ dispatching = <<>>
    /\ \E i \in GatherCalls :
          /\ gic[i] = "resolved"
          /\ gic' = [gic EXCEPT ![i] = "idle"]
    /\ UNCHANGED <<sessionVars, peerIceGatheringState, listeners, dispatching>>

IceNext ==
    \/ GatherIceCandidates
    \/ IceGatheringStateChange
    \/ OnIceGatheringStateChange
    \/ GatherIceCandidatesReturns

\* the dispatch of an event calls its listeners one after the other without
\* yielding
IceSpec == Init /\ [][IceNext]_vars /\ WF_vars(OnIceGatheringStateChange)

(***************************************************************************)
(* The identity layer as the specification describes it: the fingerprint   *)
(* and assertion lines of a text, the claims of a token, the verification  *)
(* of a fingerprint/assertion pair.                                        *)
(***************************************************************************)
IsFingerprintLine(line) ==
    /\ Len(line) >= 5
    /\ line[1] = "a=fingerprint"
    /\ line[2] = ":"
    /\ line[4] = " "
    /\ \A i \in 5..Len(line) : line[i] \in HexClass

IsIdentityLine(line) == Len(line) = 3 /\ line[1] = "a=identity:oidc" /\ line[2] = " "

IsAuthorizationLine(line) ==
    Len(line) = 3 /\ line[1] = "a=authorization:oauth2" /\ line[2] = " "

\* every a=fingerprint line of the text, top to bottom
FingerprintLines(sdp) == SelectSeq(Split(sdp, CRLF), IsFingerprintLine)

FingerprintOfLine(line) ==
    [algorithm |-> toUpperCase(line[3]),
     fingerprint |-> hexToUint8([i \in 1..(Len(line) - 4) |-> toLowerCase(line[i + 4])])]

Fingerprints(sdp) ==
    LET lines == FingerprintLines(sdp)
    IN  [i \in 1..Len(lines) |-> FingerprintOfLine(lines[i])]

IdentityTokens(sdp) ==
    LET lines == SelectSeq(Split(sdp, CRLF), IsIdentityLine)
    IN  [i \in 1..Len(lines) |-> lines[i][3]]

AccessTokens(sdp) ==
    LET lines == SelectSeq(Split(sdp, CRLF), IsAuthorizationLine)
    IN  [i \in 1..Len(lines) |-> lines[i][3]]

\* the assertions of a text by position: the Nth assertion belongs to the
\* Nth fingerprint
Assertions(sdp) ==
    [i \in 1..Len(Fingerprints(sdp)) |->
        [idToken |-> IF i <= Len(IdentityTokens(sdp)) THEN IdentityTokens(sdp)[i] ELSE "",
         accessToken |-> IF i <= Len(AccessTokens(sdp)) THEN AccessTokens(sdp)[i] ELSE ""]]

Base64UrlAlphabet ==
    <<"A", "B", "C", "D", "E", "F", "G", "H", "I", "J", "K", "L", "M",
      "N", "O", "P", "Q", "R", "S", "T", "U", "V", "W", "X", "Y", "Z",
      "a", "b", "c", "d", "e", "f", "g", "h", "i", "j", "k", "l", "m",
      "n", "o", "p", "q", "r", "s", "t", "u", "v", "w", "x", "y", "z",
      "0", "1", "2", "3", "4", "5", "6", "7", "8", "9", "-", "_">>

RECURSIVE BitsOf(_)
BitsOf(bytes) ==
    IF Len(bytes) = 0 THEN <<>>
    ELSE [k \in 1..8 |-> (bytes[1] \div Pow2(8 - k)) % 2] \o BitsOf(Tail(bytes))

\* the canonical (base64url) encoding of a fingerprint's bytes
CanonicalEncoding(bytes) ==
    LET bits == BitsOf(bytes)
        n == (Len(bits) + 5) \div 6
        bit(k) == IF k <= Len(bits) THEN bits[k] ELSE 0
        sextet(j) == 32 * bit(6 * j - 5) + 16 * bit(6 * j - 4) + 8 * bit(6 * j - 3)
                     + 4 * bit(6 * j - 2) + 2 * bit(6 * j - 1) + bit(6 * j)
    IN  [j \in 1..n |-> Base64UrlAlphabet[sextet(j) + 1]]

\* the claims of the id tokens remote peers present
TokenClaims(idToken) ==
    CASE idToken = "idTokenAlice" ->
           [issuer |-> "idp.example.org", subject |-> "alice", signatureValid |-> TRUE,
            audience |-> CanonicalEncoding(RemoteCertificate)]
      [] idToken = "idTokenMallory" ->
           [issuer |-> "idp.evil.example", subject |-> "mallory", signatureValid |-> TRUE,
            audience |-> CanonicalEncoding(RemoteCertificate)]
      [] OTHER ->
           [issuer |-> "idp.example.org", subject |-> "alice", signatureValid |-> FALSE,
            audience |-> CanonicalEncoding(RemoteCertificate)]

Verified(subject, issuer) ==
    [outcome |-> "Verified", subject |-> subject, issuer |-> issuer, reason |-> ""]

Failed(reason) == [outcome |-> "Failed", subject |-> "", issuer |-> "", reason |-> reason]

\* the verification of one fingerprint/idToken pair against a trust store
VerifyPair(f, idToken, store) ==
    LET claims == TokenClaims(idToken)
    IN  IF claims.issuer \notin store THEN Failed("UnknownIssuer")
        ELSE IF ~claims.signatureValid THEN Failed("SignatureInvalid")
        ELSE IF claims.audience # CanonicalEncoding(f.fingerprint)
             THEN Failed("FingerprintMismatch")
        ELSE Verified(claims.subject, claims.issuer)

\* the results for the pairs of a text that carry an idToken
VerificationResults(sdp, store) ==
    LET fs == Fingerprints(sdp)
        as == Assertions(sdp)
        present == SelectSeq([i \in 1..Len(fs) |-> i], LAMBDA i : as[i].idToken # "")
    IN  [k \in 1..Len(present) |-> VerifyPair(fs[present[k]], as[present[k]].idToken, store)]

VerificationFails(sdp, store) ==
    \E k \in 1..Len(VerificationResults(sdp, store)) :
        VerificationResults(sdp, store)[k].outcome = "Failed"

\* the VerificationResults the connection holds: the class has the fields peer
\* and requestToken and none for the results of a verification
verificationResults == <<>>

(***************************************************************************)
(* Properties.                                                             *)
(***************************************************************************)
\* the call of setRemoteDescription is made in this step
RemoteDescriptionCalled == srd.pc \in Settled /\ srd'.pc \notin Settled

\* C1: verify-before-apply.  A remote description whose bound identity fails
\* verification against the trust store in effect when setRemoteDescription
\* is called is never handed to the transport's setRemoteDescription.
C1_VerifyBeforeApply ==
    [][(RemoteDescriptionCalled
        /\ VerificationFails(srd'.description.sdp, EffectiveTrustStore))
       => srd'.pc # "peer"]_vars

Invoked(f) == \E i \in 1..Len(invocations) : invocations[i] = f

\* C2: a description that createOffer or createAnswer has returned is one for
\* whose every fingerprint the token-request capability was invoked.
C2_BindOnCreate ==
    \A call \in {co, ca} :
        call.pc = "resolved"
        => \A i \in 1..Len(Fingerprints(call.result.sdp)) :
              Invoked(Fingerprints(call.result.sdp)[i])

\* C3: when extractFingerprints has returned, its result is the sequence of
\* the fingerprints of all a=fingerprint lines of the text, each once, top
\* to bottom.
C3_ExtractsEveryFingerprint ==
    ca.pc \in {"tokens", "resolved"}
    => ca.fingerprints = Fingerprints(ca.description.sdp)

\* what the capability returns for the fingerprints of a text
Returned(sdp) ==
    [i \in 1..Len(Fingerprints(sdp)) |->
        TokenRequestResult(requestToken, Fingerprints(sdp)[i])]

CapabilitySucceeds(sdp) == \A i \in 1..Len(Returned(sdp)) : Returned(sdp)[i].ok

\* C4: round trip.  The assertions extracted from the description createAnswer
\* returns are, fingerprint by fingerprint and in order, exactly the tokens
\* the capability returns for the fingerprints of the transport's answer.
C4_RoundTrip ==
    (ca.pc = "resolved" /\ CapabilitySucceeds(ca.description.sdp))
    => Assertions(ca.result.sdp)
       = [i \in 1..Len(Returned(ca.description.sdp)) |->
             [idToken |-> Returned(ca.description.sdp)[i].idToken,
              accessToken |-> Returned(ca.description.sdp)[i].accessToken]]

\* C5: bind is all-or-nothing.  createAnswer returns no description when the
\* token request for one of the description's fingerprints fails.
C5_BindAllOrNothing ==
    ca.pc = "resolved" => CapabilitySucceeds(ca.description.sdp)

\* C6: past the barrier of a bind, exactly one token request was issued for
\* each fingerprint of the description.
C6_OncePerFingerprint ==
    ca.pc \in {"tokens", "resolved"}
    => /\ Len(ca.tokenRequests) = Len(Fingerprints(ca.description.sdp))
       /\ \A i \in 1..Len(ca.tokenRequests) :
             ca.fingerprints[i] = Fingerprints(ca.description.sdp)[i]

\* a pair of the text carries a validly signed token bound to a fingerprint
\* that differs from the pair's fingerprint in exactly one bit
Tampered(sdp) ==
    \E i \in 1..Len(Fingerprints(sdp)) :
        /\ Assertions(sdp)[i].idToken # ""
        /\ TokenClaims(Assertions(sdp)[i].idToken).signatureValid
        /\ \E b \in SingleBitMutations(Fingerprints(sdp)[i].fingerprint) :
              TokenClaims(Assertions(sdp)[i].idToken).audience = CanonicalEncoding(b)

\* C7: tamper detection.  setRemoteDescription never succeeds for a
\* description in which the fingerprint of a validly signed, bound assertion
\* has one bit changed.
C7_TamperDetection ==
    srd.pc = "resolved" => ~Tampered(srd.description.sdp)

\* C8: binding correctness.  When every assertion of an applied description
\* verifies against the connection's trust store, the connection holds the
\* Verified results with the tokens' subjects.
C8_BindingCorrectness ==
    (/\ srd.pc = "resolved"
     /\ configuration.trustedIdentityProviders.set
     /\ VerificationResults(srd.description.sdp, EffectiveTrustStore) # <<>>
     /\ ~VerificationFails(srd.description.sdp, EffectiveTrustStore))
    => verificationResults = VerificationResults(srd.description.sdp, EffectiveTrustStore)

HasUnknownIssuer(sdp, store) ==
    \E k \in 1..Len(VerificationResults(sdp, store)) :
        VerificationResults(sdp, store)[k].reason = "UnknownIssuer"

\* C9: fail-closed on unknown issuer.  A call of setRemoteDescription with an
\* idToken whose issuer is not in the effective trust store is rejected with
\* UnknownIssuer when it settles, whatever the token's signature.
C9_UnknownIssuerRejected ==
    [][(/\ srd.pc = "peer"
        /\ srd'.pc \in Settled
        /\ \A store \in SUBSET IdentityProviders :
              HasUnknownIssuer(srd.description.sdp, store))
       => (srd'.pc = "rejected" /\ srd'.error = "UnknownIssuer")]_vars

\* the trust stores the connection can have in effect
PossibleStores ==
    IF configuration.trustedIdentityProviders.set
    THEN {configuration.trustedIdentityProviders.providers}
    ELSE SUBSET IdentityProviders

PartiallyVerified(sdp, store) ==
    /\ VerificationFails(sdp, store)
    /\ \E k \in 1..Len(VerificationResults(sdp, store)) :
          VerificationResults(sdp, store)[k].outcome = "Verified"

\* C10: all-or-nothing.  The transport's remote description is never one of
\* which some pairs verify and another fails.
C10_AllOrNothing ==
    peerRemote # NoDescription
    => \E store \in PossibleStores : ~PartiallyVerified(peerRemote.sdp, store)

\* the subjects of the Verified results of a text under a trust store
VerifiedSubjects(sdp, store) ==
    {VerificationResults(sdp, store)[k].subject :
        k \in {j \in 1..Len(VerificationResults(sdp, store)) :
                  VerificationResults(sdp, store)[j].outcome = "Verified"}}

\* C11: required peer identity.  On a connection configured with peerIdentity,
\* setRemoteDescription succeeds only for a description of which a Verified
\* result has that subject.
C11_RequiredPeerIdentity ==
    (srd.pc = "resolved" /\ configuration.peerIdentity # "")
    => \E store \in PossibleStores :
          configuration.peerIdentity \in VerifiedSubjects(srd.description.sdp, store)

\* the issuers of the idTokens of a text
Issuers(sdp) ==
    {TokenClaims(IdentityTokens(sdp)[i]).issuer : i \in 1..Len(IdentityTokens(sdp))}

\* C12: the override is the whole trust store.  On a connection constructed
\* with a trustedIdentityProviders override, setRemoteDescription succeeds
\* only for idTokens whose issuers are entries of the override; an entry of
\* the static default alone admits none.
C12_OverrideAsAWhole ==
    (srd.pc = "resolved" /\ configuration.trustedIdentityProviders.set)
    => Issuers(srd.description.sdp) \subseteq configuration.trustedIdentityProviders.providers

\* C13: trust-store isolation.  A setRemoteDescription call during which the
\* trust store was changed settles as the store in effect when the call was
\* made decides: it is rejected when verification against that store fails.
C13_SnapshotIsolation ==
    [][(/\ srd.pc = "peer"
        /\ srd'.pc \in Settled
        /\ srd.store # EffectiveTrustStore
        /\ VerificationFails(srd.description.sdp, srd.store))
       => srd'.pc = "rejected"]_vars

\* C14: no stale-result application.  The description setLocalDescription()
\* created is applied only while the transport still holds the remote
\* description it was created for.
C14_NoStaleResult ==
    [][(sld.pc = "peer" /\ sld'.pc = "resolved" /\ sld.remote # NoDescription)
       => sld.remote = peerRemote]_vars

WellFormedHex(hex) ==
    \A i \in 1..Len(Split(hex, ":")) :
        /\ Len(Split(hex, ":")[i]) = 2
        /\ \A k \in 1..2 : IsHexDigit(toLowerCase(Split(hex, ":")[i][k]))

IsMalformedLine(line) ==
    /\ Len(line) >= 5
    /\ line[1] = "a=fingerprint"
    /\ ~WellFormedHex(SubSeq(line, 5, Len(line)))

MalformedLines(sdp) == SelectSeq(Split(sdp, CRLF), IsMalformedLine)

\* C16: malformed hex fails the extraction.  Of a text with a malformed
\* a=fingerprint line, extractFingerprints neither returns a result nor turns
\* the malformed hex part into the bytes of a fingerprint.
C16_MalformedHexFails ==
    MalformedLines(ca.description.sdp) # <<>>
    => /\ ca.pc \notin {"tokens", "resolved"}
       /\ \A i \in 1..Len(ca.fingerprints) :
             \A k \in 1..Len(MalformedLines(ca.description.sdp)) :
                ca.fingerprints[i] # FingerprintOfLine(MalformedLines(ca.description.sdp)[k])

\* a text with a fingerprint and no assertion line
Unauthenticated(sdp) ==
    /\ IdentityTokens(sdp) = <<>>
    /\ AccessTokens(sdp) = <<>>
    /\ Fingerprints(sdp) # <<>>

\* C17: the unauthenticated scenario.  On a connection without a required
\* peer identity, a setRemoteDescription call with a description that has a
\* fingerprint and no assertion settles as the transport decides: resolved
\* with the description applied, or rejected with the transport's error.
C17_UnauthenticatedProceeds ==
    (/\ srd.pc \in {"resolved", "rejected"}
     /\ configuration.peerIdentity = ""
     /\ Unauthenticated(srd.description.sdp))
    => \/ srd.pc = "resolved" /\ srd.error = "" /\ peerRemote = srd.description
       \/ srd.pc = "rejected" /\ srd.error = "InvalidStateError"

\* an unauthenticated description was applied without error
C17_Witness ==
    /\ srd.pc = "resolved"
    /\ Unauthenticated(srd.description.sdp)
    /\ configuration.peerIdentity = ""
    /\ peerRemote = srd.description

C19_GettersForward ==
    /\ currentLocalDescription = peerCurrentLocal
    /\ currentRemoteDescription = peerCurrentRemote
    /\ pendingLocalDescription = PeerPendingLocal
    /\ pendingRemoteDescription = PeerPendingRemote
    /\ localDescription = peerLocal
    /\ remoteDescription = peerRemote

\* C20: gatherIceCandidates.  A call made when gathering is complete resolves
\* at once; a call resolves only in a state in which gathering is complete,
\* and its listener is then no longer registered; the registered listeners
\* are those of the calls that wait; a call that waits when the transport
\* has reached complete and fires the event is eventually resolved.
C20_GatherResolves ==
    /\ [][\A i \in GatherCalls :
             /\ (gic[i] = "idle" /\ gic'[i] # "idle" /\ iceGatheringState = "complete")
                => gic'[i] = "resolved"
             /\ (gic[i] # "resolved" /\ gic'[i] = "resolved")
                => /\ peerIceGatheringState' = "complete"
                   /\ \A k \in 1..Len(listeners') : listeners'[k] # i]_vars
    /\ [](\A k \in 1..Len(listeners) : gic[listeners[k]] = "listening")
    /\ \A i \in GatherCalls :
          (gic[i] = "listening" /\ peerIceGatheringState = "complete") ~> (gic[i] = "resolved")

\* two calls waited at once; the event for complete has resolved one of them
\* and is about to call the listener of the other
C20_Witness ==
    /\ peerIceGatheringState = "complete"
    /\ Len(dispatching) = 1
    /\ Len(listeners) = 1
    /\ gic[dispatching[1]] = "listening"
    /\ \E j \in GatherCalls : gic[j] = "resolved"

\* C21: setLocalDescription without a description.  The call starts
\* createAnswer when the remote description is an offer and createOffer
\* otherwise; the description it hands to the transport is the one that call
\* resolved with, and the transport applies exactly it; when the creation is
\* rejected the call is rejected and the transport's local description is
\* left alone.
C21_GeneratesThenApplies ==
    [][/\ (sld.pc \in Settled /\ sld'.pc = "create")
          => IF remoteDescription.type = "offer"
             THEN /\ ca'.pc = "peer" /\ ca'.caller = "setLocalDescription"
                  /\ co'.pc \in Settled
             ELSE /\ co'.pc = "peer" /\ co'.caller = "setLocalDescription"
                  /\ ca'.pc \in Settled
       /\ (sld.pc = "create" /\ sld'.pc = "peer")
          => \E created \in {co, ca} :
                /\ created.caller = "setLocalDescription"
                /\ created.pc = "resolved"
                /\ sld'.description = created.result
       /\ (sld.pc = "create" /\ \E created \in {co, ca} :
                                   /\ created.caller = "setLocalDescription"
                                   /\ created.pc = "rejected")
          => /\ sld'.pc \in {"create", "rejected"}
             /\ peerLocal' = peerLocal
       /\ (sld.pc = "peer" /\ sld'.pc = "resolved")
          => peerLocal' = sld.description]_vars

\* setLocalDescription() has resolved on an answer that createAnswer made for
\* the offer of the remote party, and the transport holds that answer
C21_Witness ==
    /\ sld.pc = "resolved"
    /\ sld.remote # NoDescription
    /\ sld.description.type = "answer"
    /\ peerLocal = sld.description

\* the tokens of a sequence that are not empty, in order
NonEmpty(tokens) == SelectSeq(tokens, LAMBDA t : t # "")

\* C22: the assertion lines of a bound description.  The a=identity:oidc
\* lines of the description createAnswer returns carry, in order, exactly the
\* non-empty idTokens the capability returns for the fingerprints of the
\* transport's answer, one line for each, and the a=authorization:oauth2
\* lines exactly the non-empty accessTokens.
C22_AssertionLines ==
    (ca.pc = "resolved" /\ CapabilitySucceeds(ca.description.sdp))
    => /\ IdentityTokens(ca.result.sdp)
          = NonEmpty([i \in 1..Len(Returned(ca.description.sdp)) |->
                         Returned(ca.description.sdp)[i].idToken])
       /\ AccessTokens(ca.result.sdp)
          = NonEmpty([i \in 1..Len(Returned(ca.description.sdp)) |->
                         Returned(ca.description.sdp)[i].accessToken])

\* C23: positional correspondence.  In the description createAnswer returns,
\* the group of assertion lines at the position of a fingerprint of the
\* transport's answer carries the tokens the capability returns for that
\* fingerprint, whatever the order in which the requests settled.
C23_PositionalCorrespondence ==
    (ca.pc = "resolved" /\ CapabilitySucceeds(ca.description.sdp))
    => \A i \in 1..Len(Fingerprints(ca.description.sdp)) :
          \E t \in {TokenRequestResult(requestToken, Fingerprints(ca.description.sdp)[i])} :
             /\ t.idToken # "" => Assertions(ca.result.sdp)[i].idToken = t.idToken
             /\ t.accessToken # ""
                => Assertions(ca.result.sdp)[i].accessToken = t.accessToken

\* the number of a=fingerprint attributes in a text
FingerprintAttributes(sdp) == Len(SelectSeq(sdp, LAMBDA atom : atom = "a=fingerprint"))

\* C24: the loop of extractFingerprints is bounded.  The loop body runs at
\* most once for each a=fingerprint line of the text and once more, so while
\* the loop runs the fingerprints it has pushed are no more than the text's
\* a=fingerprint lines.
C24_ExtractionTerminates ==
    ca.pc = "scan" => Len(ca.fingerprints) <= FingerprintAttributes(ca.description.sdp)

\* C25: empty tokens add nothing.  On a connection with the default
\* capability, which returns an empty idToken and an empty accessToken for
\* every fingerprint, the description createAnswer returns has exactly the
\* sdp of the transport's answer, whatever the number of its fingerprint
\* lines.
C25_EmptyTokensAddNothing ==
    (ca.pc = "resolved" /\ requestToken = DefaultCallback)
    => ca.result.sdp = ca.description.sdp

\* createAnswer has resolved under the default capability on an answer with
\* two fingerprint lines
C25_Witness ==
    /\ ca.pc = "resolved"
    /\ requestToken = DefaultCallback
    /\ ca.description.sdp = SdpOf(TwoFingerprintLines)
    /\ ca.result.sdp = ca.description.sdp

IsPrefix(s, t) == Len(s) <= Len(t) /\ SubSeq(t, 1, Len(s)) = s

\* C26: the frame of the identity layer.  The description createAnswer
\* returns has the type of the transport's answer and an sdp that starts
\* with the transport's sdp; setLocalDescription called with a description
\* starts neither createOffer nor createAnswer and requests no token, and
\* the transport applies exactly the description of the call.
C26_OnlyAppends ==
    /\ [](ca.pc = "resolved"
          => /\ ca.result.type = ca.description.type
             /\ IsPrefix(ca.description.sdp, ca.result.sdp))
    /\ [][/\ (sld.pc \in Settled /\ sld'.pc = "peer")
             => /\ co'.pc \in Settled
                /\ ca'.pc \in Settled
                /\ invocations' = invocations
          /\ (sld.pc = "peer" /\ sld' # sld)
             => /\ co' = co
                /\ ca' = ca
                /\ invocations' = invocations
                /\ sld'.description = sld.description
                /\ sld'.pc = "resolved" => peerLocal' = sld.description]_vars

\* the transport holds the offer the application passed to
\* setLocalDescription, and no token was requested on the way
C26_Witness ==
    /\ sld.pc = "resolved"
    /\ sld.description.type = "offer"
    /\ peerLocal = sld.description
    /\ co.pc = "idle"
    /\ ca.pc = "idle"
    /\ invocations = <<>>

\* the digest length, in bytes, of each hash algorithm by its canonical name
DigestLength ==
    [algorithm \in {"SHA-1", "SHA-224", "SHA-256", "SHA-384", "SHA-512"} |->
        CASE algorithm = "SHA-1" -> 20
          [] algorithm = "SHA-224" -> 28
          [] algorithm = "SHA-256" -> 32
          [] algorithm = "SHA-384" -> 48
          [] OTHER -> 64]

C28_FixedAtConstruction ==
    /\ peer = IF configuration.rtcPeerConnection # ""
              THEN configuration.rtcPeerConnection
              ELSE RTCPeerConnection
    /\ [](/\ requestToken = IF configuration.customTokenRequestCallback # ""
                            THEN configuration.customTokenRequestCallback
                            ELSE DefaultCallback
          /\ configuration.rtcPeerConnection # "" => peer = configuration.rtcPeerConnection
          /\ configuration.customTokenRequestCallback = ""
             => \A i \in 1..Len(ca.fingerprints) :
                   \E t \in {TokenRequestResult(requestToken, ca.fingerprints[i])} :
                      t.ok /\ t.accessToken = "" /\ t.idToken = "")
    /\ [][peer' = peer /\ requestToken' = requestToken]_vars

\* a connection constructed without rtcPeerConnection when the static class
\* was the browser's has answered an offer after the static class was
\* assigned the one of wrtc
C28_Witness ==
    /\ configuration.rtcPeerConnection = ""
    /\ configuration.customTokenRequestCallback = ""
    /\ peer = BrowserClass
    /\ RTCPeerConnection # BrowserClass
    /\ ca.pc = "resolved"

C30_StateMirrorsTransport ==
    /\ [](signalingState = peerSignaling /\ iceGatheringState = peerIceGatheringState)
    /\ [][(/\ srd.pc = "peer"
           /\ srd'.pc \in Settled
           /\ VerificationFails(srd.description.sdp, srd.store))
          => signalingState' = signalingState]_vars

\* a text without the padding character
WithoutPadding(s) == SelectSeq(s, LAMBDA c : c # "=")

\* C31: uint8ToBase64Url is the base64url encoding.  What the function
\* returns for a byte sequence is, padding aside, the canonical encoding of
\* the bytes: each six-bit group v as character v of the alphabet A-Z a-z
\* 0-9 - _.
C31_StandardBase64Url ==
    (conversion.function = "uint8ToBase64Url" /\ conversion.returned)
    => WithoutPadding(conversion.result) = CanonicalEncoding(conversion.argument)

\* the number a group of hex digits denotes
RECURSIVE GroupValue(_)
GroupValue(group) ==
    IF Len(group) = 0 THEN 0
    ELSE 16 * GroupValue(SubSeq(group, 1, Len(group) - 1)) + DigitValue(group[Len(group)])

\* C32: hexToUint8 decodes every group to its value.  What the function
\* returns has one byte for each colon-separated group of its argument, and
\* each byte is the number its group denotes: no group is empty and none
\* denotes a number that the byte holds only modulo 256.
C32_BytesAreGroupValues ==
    (conversion.function = "hexToUint8" /\ conversion.returned)
    => \E groups \in {Split(conversion.argument, ":")} :
          /\ Len(conversion.result) = Len(groups)
          /\ \A i \in 1..Len(groups) :
                /\ groups[i] # <<>>
                /\ conversion.result[i] = GroupValue(groups[i])

====
